---- MODULE Spec2Model ----
(***************************************************************************)
(* A model of src/app.py of personal-finance-tracker: the German amount    *)
(* parser, the ledger loader, the monthly aggregator, the transaction      *)
(* hasher, the CSV-backed annotation store and the detail view.            *)
(*                                                                         *)
(* Strings are sequences of one-character tokens.  The tokens "COMMA",     *)
(* "DQ", "CR" and "LF" stand for ',', '"', '\r' and '\n'; "SUR" stands for *)
(* a lone UTF-16 surrogate (a str that utf-8 cannot encode); "BAR" stands  *)
(* for '|'.  A pandas missing value (NaN) is the one-token sequence NaN.   *)
(*                                                                         *)
(* Python floats are binary floating point, round to nearest, ties to      *)
(* even.  The model keeps that arithmetic and narrows the significand from *)
(* 53 bits to MantissaBits bits.                                           *)
(***************************************************************************)
EXTENDS Integers, Sequences, FiniteSets, TLC

VARIABLES
    amountIn,      \* the cell handed to parse_german_amount
    amountOut,     \* what parse_german_amount did with it
    rowA, rowB,    \* two transaction rows handed to create_transaction_hash
    hashA, hashB,  \* their hashes
    ledger,        \* transactions.csv: its header and its rows of raw cells
    aliases,       \* settings.json's column_aliases
    summaryResp,   \* the last response of GET /api/summary
    rootResp,      \* the last response of GET /
    file,          \* transaction_annotations.csv: absent, or its characters
    pc,            \* per worker: where it is in save_annotation
    local,         \* per worker: save_annotation's `annotations` dict
    req,           \* per worker: the request being served, and its history
    given,         \* history: per hash, the last category and comment given
    log            \* history: the last request to the store that ended

vars == <<amountIn, amountOut, rowA, rowB, hashA, hashB, ledger, aliases,
          summaryResp, rootResp, file, pc, local, req, given, log>>

----------------------------------------------------------------------------
(* Bounds *)

MaxAmountLen == 3
MantissaBits == 3
MaxRows == 3
MaxOps == 3
MaxRaceOps == 2
MaxFieldLen == 1

----------------------------------------------------------------------------
(* Strings *)

NaN == <<"NaN">>
Empty == <<>>

RECURSIVE SeqsUpTo(_, _)
SeqsUpTo(S, n) ==
    IF n = 0 THEN {<<>>}
    ELSE LET shorter == SeqsUpTo(S, n - 1)
         IN  shorter \cup {Append(s, c) : s \in shorter, c \in S}

IsSpace(c) == c = " "

RECURSIVE lstrip(_)
lstrip(s) == IF s # <<>> /\ IsSpace(Head(s)) THEN lstrip(Tail(s)) ELSE s

RECURSIVE rstrip(_)
rstrip(s) ==
    IF s # <<>> /\ IsSpace(s[Len(s)]) THEN rstrip(SubSeq(s, 1, Len(s) - 1)) ELSE s

strip(s) == rstrip(lstrip(s))

remove(s, c) == SelectSeq(s, LAMBDA x : x # c)

replace(s, a, b) == [i \in 1..Len(s) |-> IF s[i] = a THEN b ELSE s[i]]

startswith(s, c) == s # <<>> /\ Head(s) = c

----------------------------------------------------------------------------
(* Floats *)

RECURSIVE Pow2(_)
Pow2(n) == IF n = 0 THEN 1 ELSE 2 * Pow2(n - 1)

RECURSIVE Pow10(_)
Pow10(n) == IF n = 0 THEN 1 ELSE 10 * Pow10(n - 1)

FZero == [m |-> 0, e |-> 0]

\* The float nearest to n / d (n >= 0, d > 0) times 2^e: the significand is
\* scaled into [2^(MantissaBits-1), 2^MantissaBits) and rounded, ties to even.
RECURSIVE RoundPos(_, _, _)
RoundPos(n, d, e) ==
    IF n = 0 THEN FZero
    ELSE IF n >= d * Pow2(MantissaBits) THEN RoundPos(n, 2 * d, e + 1)
    ELSE IF n < d * Pow2(MantissaBits - 1) THEN RoundPos(2 * n, d, e - 1)
    ELSE LET q == n \div d
             r == n % d
             up == 2 * r > d \/ (2 * r = d /\ q % 2 = 1)
             m == IF up THEN q + 1 ELSE q
         IN  IF m = Pow2(MantissaBits)
             THEN [m |-> Pow2(MantissaBits - 1), e |-> e + 1]
             ELSE [m |-> m, e |-> e]

FNeg(a) == [a EXCEPT !.m = -a.m]

FRound(n, d, e) == IF n < 0 THEN FNeg(RoundPos(-n, d, e)) ELSE RoundPos(n, d, e)

\* a + b, rounded once
FAdd(a, b) ==
    LET e0 == IF a.e < b.e THEN a.e ELSE b.e
        s == a.m * Pow2(a.e - e0) + b.m * Pow2(b.e - e0)
    IN  FRound(s, 1, e0)

FPos(a) == a.m > 0
FNegative(a) == a.m < 0

RECURSIVE FSum(_)
FSum(xs) == IF xs = <<>> THEN FZero
            ELSE FAdd(FSum(SubSeq(xs, 1, Len(xs) - 1)), xs[Len(xs)])

----------------------------------------------------------------------------
(* float(str) *)

Digits == {"1", "2", "7"}

DigitVal(c) == CASE c = "1" -> 1 [] c = "2" -> 2 [] c = "7" -> 7

RECURSIVE DigitsVal(_)
DigitsVal(s) ==
    IF s = <<>> THEN 0 ELSE 10 * DigitsVal(SubSeq(s, 1, Len(s) - 1)) + DigitVal(s[Len(s)])

\* an unsigned literal: digits with at most one '.', and at least one digit
IsUnsigned(s) ==
    /\ \A i \in 1..Len(s) : s[i] \in Digits \cup {"."}
    /\ Len(SelectSeq(s, LAMBDA x : x = ".")) <= 1
    /\ \E i \in 1..Len(s) : s[i] \in Digits

\* whether Python's float() accepts s: surrounding whitespace, an optional
\* sign, then an unsigned literal
float_accepts(s) ==
    LET t == strip(s)
    IN  IF startswith(t, "-") THEN IsUnsigned(Tail(t)) ELSE IsUnsigned(t)

UnsignedVal(s) ==
    LET dot == CHOOSE i \in 1..(Len(s) + 1) :
                   /\ (i <= Len(s) => s[i] = ".")
                   /\ \A j \in 1..(i - 1) : s[j] # "."
        frac == IF dot <= Len(s) THEN Len(s) - dot ELSE 0
    IN  FRound(DigitsVal(remove(s, ".")), Pow10(frac), 0)

\* float(s) for an s that float() accepts
float_of(s) ==
    LET t == strip(s)
    IN  IF startswith(t, "-") THEN FNeg(UnsignedVal(Tail(t))) ELSE UnsignedVal(t)

----------------------------------------------------------------------------
(* parse_german_amount *)

Ok(v) == [tag |-> "ok", val |-> v]
Raise == [tag |-> "ValueError", val |-> FZero]

\* the try block's cleaned string and sign (lines 109-114)
primary_negative(s) == startswith(strip(s), "-")
primary_clean(s) ==
    LET t == strip(s)
        u == IF startswith(t, "-") THEN Tail(t) ELSE t
    IN  replace(remove(u, "."), ",", ".")

\* the except block's cleaned string (line 119)
fallback_clean(s) == remove(replace(s, ",", "."), ".")

\* a fallback that gives 0.0 for what it cannot read
parse_fallback_zero(s) ==
    IF float_accepts(fallback_clean(s)) THEN Ok(float_of(fallback_clean(s))) ELSE Ok(FZero)

parse_fallback(s) ==
    IF float_accepts(fallback_clean(s)) THEN Ok(float_of(fallback_clean(s))) ELSE Raise

parse_german_amount(s) ==
    IF s = NaN \/ s = Empty THEN Ok(FZero)
    ELSE IF float_accepts(primary_clean(s))
         THEN LET val == float_of(primary_clean(s))
              IN  Ok(IF primary_negative(s) THEN FNeg(val) ELSE val)
         ELSE parse_fallback(s)

AmountChars == Digits \cup {"-", ".", ",", " ", "x"}
AmountCells == SeqsUpTo(AmountChars, MaxAmountLen) \cup {NaN}

Unparsed == [tag |-> "none", val |-> FZero]

----------------------------------------------------------------------------
(* Dates *)

D1 == <<"15.01.2024">>
D2 == <<"03.02.2024">>
DBad == <<"foo">>

NaT == [y |-> 0, m |-> 0, d |-> 0]

\* pd.to_datetime(cell, dayfirst=True, errors='coerce'): 03.02.2024 is the
\* 3rd of February; a missing, empty or unparseable cell is NaT
to_datetime(cell) ==
    CASE cell = D1 -> [y |-> 2024, m |-> 1, d |-> 15]
      [] cell = D2 -> [y |-> 2024, m |-> 2, d |-> 3]
      [] OTHER -> NaT

\* str(Timestamp), str(Period) and str(float): one to one, free of '|'
str_date(t) ==
    IF t = NaT THEN <<"NaT">>
    ELSE <<ToString(t.y), "-", ToString(t.m), "-", ToString(t.d)>>

str_period(t) ==
    IF t = NaT THEN <<"NaT">> ELSE <<ToString(t.y), "-", ToString(t.m)>>

str_float(a) == <<ToString(a.m), "e", ToString(a.e)>>

str_cell(c) == IF c = NaN THEN <<"nan">> ELSE c

----------------------------------------------------------------------------
(* load_transactions *)

expected_columns == <<"date", "amount", "payer", "payee", "purpose">>
required_columns == <<"date", "amount">>

Range(s) == {s[i] : i \in 1..Len(s)}

\* df.rename(columns=rename_map): only the columns that are present
rename(header, al) ==
    [i \in 1..Len(header) |->
        IF \E a \in al : a[1] = header[i]
        THEN (CHOOSE a \in al : a[1] = header[i])[2]
        ELSE header[i]]

\* the header column that ends up named c, or "" when there is none
origin(header, al, c) ==
    IF \E i \in 1..Len(header) : rename(header, al)[i] = c
    THEN header[CHOOSE i \in 1..Len(header) : rename(header, al)[i] = c]
    ELSE ""

\* lines 85-88: a missing expected column is created, with '' in every row
with_expected(cols) ==
    cols \o SelectSeq(expected_columns, LAMBDA c : c \notin Range(cols))

\* the cell of raw row r in column c once lines 70-88 have run
cell_of(header, al, r, c) ==
    IF origin(header, al, c) = "" THEN Empty ELSE r[origin(header, al, c)]

isnull(c) == c = NaN

fillna(c) == IF c = NaN THEN Empty ELSE c

\* line 92
missing_columns(header, al, rows) ==
    SelectSeq(required_columns,
              LAMBDA c : \/ c \notin Range(with_expected(rename(header, al)))
                         \/ \A i \in 1..Len(rows) : isnull(cell_of(header, al, rows[i], c)))

NoDf == [tag |-> "none", missing |-> <<>>, columns |-> <<>>, rows |-> <<>>]

load_transactions(lg, al) ==
    LET header == lg.header
        missing == missing_columns(header, al, lg.rows)
        amount(r) == parse_german_amount(cell_of(header, al, r, "amount"))
        passthrough(r) == IF "Buchungstag" \in Range(rename(header, al))
                          THEN r.Buchungstag ELSE NaN
    IN  IF missing # <<>>
        THEN [NoDf EXCEPT !.tag = "MissingColumns", !.missing = missing]
        ELSE IF \E i \in 1..Len(lg.rows) : amount(lg.rows[i]).tag # "ok"
        THEN [NoDf EXCEPT !.tag = "AmountError"]
        ELSE [tag |-> "ok",
              missing |-> <<>>,
              columns |-> with_expected(rename(header, al)),
              rows |-> [i \in 1..Len(lg.rows) |->
                  [date |-> to_datetime(cell_of(header, al, lg.rows[i], "date")),
                   amount |-> amount(lg.rows[i]).val,
                   payer |-> fillna(cell_of(header, al, lg.rows[i], "payer")),
                   payee |-> fillna(cell_of(header, al, lg.rows[i], "payee")),
                   purpose |-> fillna(cell_of(header, al, lg.rows[i], "purpose")),
                   Buchungstag |-> passthrough(lg.rows[i])]]]

----------------------------------------------------------------------------
(* create_transaction_hash *)

str_val(row, c) ==
    CASE c = "date" -> str_date(row.date)
      [] c = "amount" -> str_float(row.amount)
      [] c = "payer" -> row.payer
      [] c = "payee" -> row.payee
      [] c = "purpose" -> row.purpose
      [] c = "Buchungstag" -> str_cell(row.Buchungstag)
      [] c = "YearMonth" -> str_period(row.date)

RECURSIVE join(_, _)
join(sep, parts) ==
    IF parts = <<>> THEN <<>>
    ELSE IF Len(parts) = 1 THEN parts[1]
    ELSE parts[1] \o <<sep>> \o join(sep, Tail(parts))

\* line 54: '|'.join(str(val) for val in row.values)
row_string(columns, row) ==
    join("BAR", [i \in 1..Len(columns) |-> str_val(row, columns[i])])

\* SHA-256 is taken to be collision free: the digest of s is s itself, tagged,
\* with the characters a hex digest cannot hold renamed
hex(c) == CASE c = "COMMA" -> "%2C" [] c = "DQ" -> "%22" [] c = "CR" -> "%0D"
            [] c = "LF" -> "%0A" [] c = "SUR" -> "%ED" [] OTHER -> c

sha256(s) == <<"#">> \o [i \in 1..Len(s) |-> hex(s[i])]

create_transaction_hash(columns, row) == sha256(row_string(columns, row))

----------------------------------------------------------------------------
(* The annotations file: csv.writer (lines 162-166) *)

Absent == [exists |-> FALSE, text |-> <<>>]
Present(text) == [exists |-> TRUE, text |-> text]

\* a column name is one token
header_row == <<<<"transaction_hash">>, <<"category">>, <<"comment">>>>

needs_quote(f) == \E i \in 1..Len(f) : f[i] \in {"COMMA", "DQ", "CR", "LF"}

RECURSIVE doubled(_)
doubled(f) ==
    IF f = <<>> THEN <<>>
    ELSE (IF Head(f) = "DQ" THEN <<"DQ", "DQ">> ELSE <<Head(f)>>) \o doubled(Tail(f))

\* QUOTE_MINIMAL with doublequote
quote_field(f) == IF needs_quote(f) THEN <<"DQ">> \o doubled(f) \o <<"DQ">> ELSE f

\* writer.writerow(fields): the fields joined by ',' and ended by '\r\n'
csv_row(fields) ==
    join("COMMA", [i \in 1..Len(fields) |-> quote_field(fields[i])]) \o <<"CR", "LF">>

\* utf-8 encodes every str but one that holds a lone surrogate
encodable(text) == \A i \in 1..Len(text) : text[i] # "SUR"

entry_row(entry) == csv_row(<<entry.hash, entry.category, entry.comment>>)

\* What the file holds once the with block of lines 162-166 is left: open(.., 'w')
\* has truncated it, the rows are written in order, and the first row that
\* cannot be encoded raises and ends the writing.
RECURSIVE written_rows(_)
written_rows(entries) ==
    IF entries = <<>> THEN <<>>
    ELSE IF ~encodable(entry_row(entries[1])) THEN <<>>
    ELSE entry_row(entries[1]) \o written_rows(Tail(entries))

write_raises(entries) == \E i \in 1..Len(entries) : ~encodable(entry_row(entries[i]))

written_file(entries) == Present(csv_row(header_row) \o written_rows(entries))

----------------------------------------------------------------------------
(* The annotations file: open(.., 'r') and csv.DictReader (lines 135-141) *)

\* text mode without newline='': '\r\n' and '\r' are read as '\n'
RECURSIVE universal_newlines(_)
universal_newlines(t) ==
    IF t = <<>> THEN <<>>
    ELSE IF Head(t) = "CR"
         THEN IF Len(t) >= 2 /\ t[2] = "LF"
              THEN <<"LF">> \o universal_newlines(SubSeq(t, 3, Len(t)))
              ELSE <<"LF">> \o universal_newlines(Tail(t))
         ELSE <<Head(t)>> \o universal_newlines(Tail(t))

\* the reader is fed line by line, and an end-of-line mark after each line
RECURSIVE with_eol(_)
with_eol(t) ==
    IF t = <<>> THEN <<>>
    ELSE IF Head(t) = "LF" THEN <<"LF", "EOL">> \o with_eol(Tail(t))
    ELSE IF Len(t) = 1 THEN <<Head(t), "EOL">>
    ELSE <<Head(t)>> \o with_eol(Tail(t))

IsNewline(c) == c \in {"LF", "CR"}

\* _csv's reader: st is its state, fld the field and rec the record being
\* read, out the records read so far
RECURSIVE csv_parse(_, _, _, _, _)
csv_parse(ev, st, fld, rec, out) ==
    IF ev = <<>>
    THEN IF st = "IN_QUOTED_FIELD" \/ fld # <<>>
         THEN Append(out, Append(rec, fld))
         ELSE out
    ELSE
    LET c == Head(ev)
        rest == Tail(ev)
        end_record(r) ==
            IF c = "EOL" THEN csv_parse(rest, "START_RECORD", <<>>, <<>>, Append(out, r))
            ELSE csv_parse(rest, "EAT_CRNL", <<>>, r, out)
        start_field ==
            IF c = "EOL" \/ IsNewline(c) THEN end_record(Append(rec, <<>>))
            ELSE IF c = "DQ" THEN csv_parse(rest, "IN_QUOTED_FIELD", <<>>, rec, out)
            ELSE IF c = "COMMA" THEN csv_parse(rest, "START_FIELD", <<>>, Append(rec, <<>>), out)
            ELSE csv_parse(rest, "IN_FIELD", <<c>>, rec, out)
    IN  CASE st = "START_RECORD" ->
                IF c = "EOL" THEN csv_parse(rest, "START_RECORD", <<>>, <<>>, out)
                ELSE IF IsNewline(c) THEN csv_parse(rest, "EAT_CRNL", <<>>, <<>>, out)
                ELSE start_field
          [] st = "START_FIELD" -> start_field
          [] st = "IN_FIELD" ->
                IF c = "EOL" \/ IsNewline(c) THEN end_record(Append(rec, fld))
                ELSE IF c = "COMMA"
                THEN csv_parse(rest, "START_FIELD", <<>>, Append(rec, fld), out)
                ELSE csv_parse(rest, "IN_FIELD", Append(fld, c), rec, out)
          [] st = "IN_QUOTED_FIELD" ->
                IF c = "EOL" THEN csv_parse(rest, st, fld, rec, out)
                ELSE IF c = "DQ" THEN csv_parse(rest, "QUOTE_IN_QUOTED_FIELD", fld, rec, out)
                ELSE csv_parse(rest, st, Append(fld, c), rec, out)
          [] st = "QUOTE_IN_QUOTED_FIELD" ->
                IF c = "DQ" THEN csv_parse(rest, "IN_QUOTED_FIELD", Append(fld, c), rec, out)
                ELSE IF c = "COMMA"
                THEN csv_parse(rest, "START_FIELD", <<>>, Append(rec, fld), out)
                ELSE IF c = "EOL" \/ IsNewline(c) THEN end_record(Append(rec, fld))
                ELSE csv_parse(rest, "IN_FIELD", Append(fld, c), rec, out)
          [] st = "EAT_CRNL" ->
                IF c = "EOL" THEN csv_parse(rest, "START_RECORD", <<>>, <<>>, Append(out, rec))
                ELSE csv_parse(rest, st, fld, rec, out)

csv_reader(text) ==
    csv_parse(with_eol(universal_newlines(text)), "START_RECORD", <<>>, <<>>, <<>>)

None == <<"None">>

index_of(seq, x) ==
    IF \E i \in 1..Len(seq) : seq[i] = x
    THEN CHOOSE i \in 1..Len(seq) : seq[i] = x /\ \A j \in 1..(i - 1) : seq[j] # x
    ELSE 0

\* DictReader's row.get(name, default): a short row gives None
row_get(fieldnames, row, name, default) ==
    LET k == index_of(fieldnames, name)
    IN  IF k = 0 THEN default ELSE IF k <= Len(row) THEN row[k] ELSE None

has_key(entries, h) == \E i \in 1..Len(entries) : entries[i].hash = h

\* annotations[h] = entry on a dict that keeps insertion order
dict_set(entries, entry) ==
    IF has_key(entries, entry.hash)
    THEN [i \in 1..Len(entries) |->
             IF entries[i].hash = entry.hash THEN entry ELSE entries[i]]
    ELSE Append(entries, entry)

dict_get(entries, h, default) ==
    IF has_key(entries, h)
    THEN entries[CHOOSE i \in 1..Len(entries) : entries[i].hash = h]
    ELSE default

RECURSIVE rows_to_dict(_, _, _)
rows_to_dict(fieldnames, rows, acc) ==
    IF rows = <<>> THEN acc
    ELSE IF rows[1] = <<>> THEN rows_to_dict(fieldnames, Tail(rows), acc)
    ELSE rows_to_dict(fieldnames, Tail(rows),
             dict_set(acc, [hash |-> row_get(fieldnames, rows[1], <<"transaction_hash">>, None),
                            category |-> row_get(fieldnames, rows[1], <<"category">>, Empty),
                            comment |-> row_get(fieldnames, rows[1], <<"comment">>, Empty)]))

load_annotations(f) ==
    IF ~f.exists THEN <<>>
    ELSE LET recs == csv_reader(f.text)
         IN  IF recs = <<>> THEN <<>> ELSE rows_to_dict(recs[1], Tail(recs), <<>>)

----------------------------------------------------------------------------
(* save_annotation *)

NotGiven == <<"NotGiven">>

\* lines 150-157
upserted(entries, h, category, comment) ==
    LET old == dict_get(entries, h, [hash |-> h, category |-> Empty, comment |-> Empty])
    IN  dict_set(entries,
                 [hash |-> h,
                  category |-> IF category # NotGiven THEN category ELSE old.category,
                  comment |-> IF comment # NotGiven THEN comment ELSE old.comment])

----------------------------------------------------------------------------
(* get_monthly_summary *)

period(t) == [y |-> t.y, m |-> t.m]

amounts(rows) == [i \in 1..Len(rows) |-> rows[i].amount]

\* the groups' keys in ascending order; groupby drops the NaT key
RECURSIVE sorted_periods(_)
sorted_periods(ps) ==
    IF ps = {} THEN <<>>
    ELSE LET lo == CHOOSE p \in ps :
                       \A q \in ps : p.y * 12 + p.m <= q.y * 12 + q.m
         IN  <<lo>> \o sorted_periods(ps \ {lo})

\* lines 176-180, for the rows x of one group
bucket(p, x) ==
    [month |-> p,
     income |-> FSum(SelectSeq(amounts(x), FPos)),
     expenses |-> FSum(SelectSeq(amounts(x), FNegative)),
     net |-> FSum(amounts(x))]

get_monthly_summary(rows) ==
    LET ps == sorted_periods({period(rows[i].date) :
                                 i \in {j \in 1..Len(rows) : rows[j].date # NaT}})
    IN  [i \in 1..Len(ps) |->
            bucket(ps[i], SelectSeq(rows, LAMBDA r : r.date # NaT /\ period(r.date) = ps[i]))]

column(buckets, f) == [i \in 1..Len(buckets) |-> buckets[i][f]]

----------------------------------------------------------------------------
(* prepare_transaction_details *)

detail_columns(columns) == Append(columns, "YearMonth")

\* df['YearMonth'].unique(): in order of first appearance, 'NaT' among them
RECURSIVE unique(_)
unique(xs) ==
    IF xs = <<>> THEN <<>>
    ELSE LET init == unique(SubSeq(xs, 1, Len(xs) - 1))
             x == xs[Len(xs)]
         IN  IF x \in Range(init) THEN init ELSE Append(init, x)

no_annotation(h) == [hash |-> h, category |-> Empty, comment |-> Empty]

\* lines 226-236 and 242-252: party is the payer of an income row, the payee
\* of an expense row
detail(columns, row, party, annotations) ==
    LET tx_hash == create_transaction_hash(detail_columns(columns), row)
        annotation == dict_get(annotations, tx_hash, no_annotation(tx_hash))
    IN  [hash |-> tx_hash,
         date |-> [m |-> row.date.m, d |-> row.date.d],
         amount |-> row.amount,
         party |-> party,
         purpose |-> row.purpose,
         category |-> annotation.category,
         comment |-> annotation.comment]

income_rows(rows, month) ==
    SelectSeq(rows, LAMBDA r : str_period(r.date) = month /\ FPos(r.amount))

expense_rows(rows, month) ==
    SelectSeq(rows, LAMBDA r : str_period(r.date) = month /\ FNegative(r.amount))

\* NaT.strftime raises ValueError: a listed row whose date is NaT ends the call
strftime_raises(rows) ==
    \E i \in 1..Len(rows) : rows[i].date = NaT /\ rows[i].amount # FZero

prepare_transaction_details(columns, rows, annotations) ==
    LET months == unique([i \in 1..Len(rows) |-> str_period(rows[i].date)])
    IN  [i \in 1..Len(months) |->
            [month |-> months[i],
             income |-> LET x == income_rows(rows, months[i])
                        IN  [k \in 1..Len(x) |-> detail(columns, x[k], x[k].payer, annotations)],
             expenses |-> LET x == expense_rows(rows, months[i])
                          IN  [k \in 1..Len(x) |-> detail(columns, x[k], x[k].payee, annotations)]]]

----------------------------------------------------------------------------
(* The handlers' responses *)

NoSummary ==
    [tag |-> "none", err |-> "", missing |-> <<>>, total_transactions |-> 0,
     date_range |-> <<>>, totals |-> <<>>, monthly_data |-> <<>>]

NoRoot == [tag |-> "none", err |-> "", missing |-> <<>>, chart |-> <<>>, details |-> <<>>]

\* GET /api/summary, lines 306-335: every exception becomes a 500
get_summary(lg, al) ==
    LET df == load_transactions(lg, al)
        monthly_summary == get_monthly_summary(df.rows)
    IN  IF df.tag # "ok"
        THEN [NoSummary EXCEPT !.tag = "500", !.err = df.tag, !.missing = df.missing]
        \* no group at all: apply returns a frame without an 'Income' column
        ELSE IF monthly_summary = <<>>
        THEN [NoSummary EXCEPT !.tag = "500", !.err = "KeyError"]
        ELSE [tag |-> "ok",
              err |-> "",
              missing |-> <<>>,
              total_transactions |-> Len(df.rows),
              date_range |-> <<monthly_summary[1].month,
                               monthly_summary[Len(monthly_summary)].month>>,
              totals |-> <<FSum(column(monthly_summary, "income")),
                           FSum(column(monthly_summary, "expenses")),
                           FSum(column(monthly_summary, "net"))>>,
              monthly_data |-> monthly_summary]

\* GET /, lines 275-290
root(lg, al, f) ==
    LET df == load_transactions(lg, al)
    IN  IF df.tag # "ok"
        THEN [NoRoot EXCEPT !.tag = "500", !.err = df.tag, !.missing = df.missing]
        ELSE IF strftime_raises(df.rows)
        THEN [NoRoot EXCEPT !.tag = "500", !.err = "NaTType does not support strftime"]
        ELSE [tag |-> "ok",
              err |-> "",
              missing |-> <<>>,
              chart |-> get_monthly_summary(df.rows),
              details |-> prepare_transaction_details(df.columns, df.rows,
                                                      load_annotations(f))]

----------------------------------------------------------------------------
(* Inputs *)

Headers ==
    {<<"date", "amount", "payer">>, <<"amount", "payer">>, <<"date", "payer">>,
     <<"Buchungstag", "amount">>}

AliasTables == {{}, {<<"Buchungstag", "date">>}}

Cells(c) ==
    CASE c \in {"date", "Buchungstag"} -> {NaN, D1, D2, DBad}
      [] c = "amount" -> {NaN, <<"1">>, <<"-", "2">>, <<"-", "7">>, <<"x">>}
      [] OTHER -> {<<"a">>}

\* the rows a file with this header can hold: a column it lacks has no cell
CellsIn(header, c) == IF c \in Range(header) THEN Cells(c) ELSE {NaN}

RawRows(header) ==
    [date : CellsIn(header, "date"), amount : CellsIn(header, "amount"),
     payer : CellsIn(header, "payer"), payee : CellsIn(header, "payee"),
     purpose : CellsIn(header, "purpose"), Buchungstag : CellsIn(header, "Buchungstag")]

\* the ledgers of at most n rows
Ledgers(n) ==
    UNION {{[header |-> h, rows |-> rs] : rs \in SeqsUpTo(RawRows(h), n)} :
              h \in Headers}

NoLedger == [header |-> <<>>, rows |-> <<>>]

\* the ledger the store is exercised with: January income and expense, a
\* February income, a row equal to the first, and a row without an amount
StoreLedger ==
    LET row(d, a) == [date |-> d, amount |-> a, payer |-> <<"a">>, payee |-> <<"b">>,
                      purpose |-> NaN, Buchungstag |-> NaN]
    IN  [header |-> <<"date", "amount", "payer", "payee", "purpose">>,
         rows |-> <<row(D1, <<"1">>), row(D1, <<"-", "2">>), row(D2, <<"7">>),
                    row(D1, <<"1">>), row(D1, NaN)>>]

StoreDf == load_transactions(StoreLedger, {})

tx_hash(i) == create_transaction_hash(detail_columns(StoreDf.columns), StoreDf.rows[i])

\* the hashes the page posts: those of the ledger's first rows
ReqHashes == {tx_hash(1), tx_hash(2)}

Categories == {Empty, <<"F">>, <<"DQ", "COMMA">>}
Comments == {NotGiven, Empty, <<"x">>, <<"a", "CR", "b">>, <<"SUR">>}
RaceComments == {NotGiven, <<"x">>, <<"SUR">>}

HashRows ==
    {[date |-> to_datetime(d), amount |-> parse_german_amount(a).val,
      payer |-> p, payee |-> q, purpose |-> Empty, Buchungstag |-> NaN] :
        d \in {D1, D2}, a \in {<<"1">>, <<"-", "2">>},
        p \in SeqsUpTo({"a", "BAR"}, MaxFieldLen),
        q \in SeqsUpTo({"a", "BAR"}, MaxFieldLen)}

NoRow == [date |-> NaT, amount |-> FZero, payer |-> Empty, payee |-> Empty,
          purpose |-> Empty, Buchungstag |-> NaN]

Workers == {1, 2}

NoReq == [hash |-> Empty, category |-> NotGiven, comment |-> NotGiven,
          before |-> <<>>, stale |-> FALSE, other |-> Empty, otherOk |-> FALSE]

NoLog == [ops |-> 0, status |-> "none", failed |-> FALSE, hash |-> Empty,
          before |-> <<>>, stale |-> FALSE, other |-> Empty, otherOk |-> FALSE]

NotYetGiven == [present |-> FALSE, category |-> Empty, comment |-> Empty]

----------------------------------------------------------------------------
(* Initial states *)

ParseQuiet == amountIn = NaN /\ amountOut = Unparsed

HashQuiet == rowA = NoRow /\ rowB = NoRow /\ hashA = <<>> /\ hashB = <<>>

NoResponse == summaryResp = NoSummary /\ rootResp = NoRoot

StoreQuiet ==
    /\ file = Absent
    /\ pc = [w \in Workers |-> "idle"]
    /\ local = [w \in Workers |-> <<>>]
    /\ req = [w \in Workers |-> NoReq]
    /\ given = [h \in ReqHashes |-> NotYetGiven]
    /\ log = NoLog

InitParse ==
    /\ amountIn \in AmountCells /\ amountOut = Unparsed
    /\ HashQuiet
    /\ ledger = NoLedger /\ aliases = {} /\ NoResponse
    /\ StoreQuiet

InitHash ==
    /\ ParseQuiet
    /\ rowA \in HashRows /\ rowB \in HashRows /\ hashA = <<>> /\ hashB = <<>>
    /\ ledger = NoLedger /\ aliases = {} /\ NoResponse
    /\ StoreQuiet

\* transactions.csv and settings.json as the requests find them
InitLedger ==
    /\ ParseQuiet
    /\ HashQuiet
    /\ ledger \in Ledgers(MaxRows) /\ aliases \in AliasTables /\ NoResponse
    /\ StoreQuiet

\* no annotation has been saved yet
InitStore ==
    /\ ParseQuiet
    /\ HashQuiet
    /\ ledger = StoreLedger /\ aliases = {} /\ NoResponse
    /\ StoreQuiet

----------------------------------------------------------------------------
(* Actions *)

ParseAmount ==
    /\ amountOut = Unparsed
    /\ amountOut' = parse_german_amount(amountIn)
    /\ UNCHANGED <<amountIn, rowA, rowB, hashA, hashB, ledger, aliases, summaryResp,
                   rootResp, file, pc, local, req, given, log>>

HashTransactions ==
    /\ hashA = <<>>
    /\ hashA' = create_transaction_hash(detail_columns(expected_columns), rowA)
    /\ hashB' = create_transaction_hash(detail_columns(expected_columns), rowB)
    /\ UNCHANGED <<amountIn, amountOut, rowA, rowB, ledger, aliases, summaryResp,
                   rootResp, file, pc, local, req, given, log>>

GetSummary ==
    /\ summaryResp' = get_summary(ledger, aliases)
    /\ UNCHANGED <<amountIn, amountOut, rowA, rowB, hashA, hashB, ledger, aliases,
                   rootResp, file, pc, local, req, given, log>>

Root ==
    /\ rootResp' = root(ledger, aliases, file)
    /\ UNCHANGED <<amountIn, amountOut, rowA, rowB, hashA, hashB, ledger, aliases,
                   summaryResp, file, pc, local, req, given, log>>

\* save_annotation up to line 157: the store is read and the entry changed in
\* the worker's own dict
BeginSave(w, h, category, comment) ==
    /\ local' = [local EXCEPT ![w] = upserted(load_annotations(file), h, category, comment)]
    /\ req' = [req EXCEPT ![w] = [NoReq EXCEPT !.hash = h, !.category = category,
                                               !.comment = comment,
                                               !.before = load_annotations(file)]]
    /\ pc' = [pc EXCEPT ![w] = "write"]
    /\ log' = [log EXCEPT !.ops = @ + 1]

\* a request that lines 346-347 or 365-366 turn down
Rejected ==
    /\ log' = [log EXCEPT !.status = "rejected"]
    /\ UNCHANGED <<pc, local, req>>

\* POST /api/category, up to the store's rewrite
set_category(w, h, category, bound) ==
    /\ pc[w] = "idle"
    /\ log.ops < bound
    /\ IF h = Empty \/ category = Empty
       THEN Rejected
       ELSE BeginSave(w, h, category, NotGiven)
    /\ UNCHANGED <<amountIn, amountOut, rowA, rowB, hashA, hashB, ledger, aliases,
                   summaryResp, rootResp, file, given>>

\* POST /api/comment, up to the store's rewrite
set_comment(w, h, comment, bound) ==
    /\ pc[w] = "idle"
    /\ log.ops < bound
    /\ IF h = Empty
       THEN Rejected
       ELSE BeginSave(w, h, NotGiven, comment)
    /\ UNCHANGED <<amountIn, amountOut, rowA, rowB, hashA, hashB, ledger, aliases,
                   summaryResp, rootResp, file, given>>

\* the file opened with 'a': the rows are added to what the file held
rewrite_append(f, entries) == Present(f.text \o written_file(entries).text)

\* lines 160-166: open(.., 'w') discards what the file f held, whoever wrote it
rewrite(f, entries) == written_file(entries)

\* save_annotation from line 160 on, and the handler's return
save_write(w) ==
    /\ pc[w] = "write"
    /\ file' = rewrite(file, local[w])
    /\ pc' = [pc EXCEPT ![w] = "idle"]
    /\ log' = [ops |-> log.ops,
               status |-> IF write_raises(local[w]) THEN "raised" ELSE "ok",
               failed |-> log.failed \/ write_raises(local[w]),
               hash |-> req[w].hash,
               before |-> req[w].before,
               stale |-> req[w].stale,
               other |-> req[w].other,
               otherOk |-> req[w].otherOk]
    /\ req' = [v \in Workers |->
                  IF v # w /\ pc[v] = "write"
                  THEN [req[v] EXCEPT !.stale = TRUE, !.other = req[w].hash,
                                      !.otherOk = ~write_raises(local[w])]
                  ELSE req[v]]
    /\ given' = IF write_raises(local[w]) \/ req[w].hash \notin ReqHashes THEN given
                ELSE [given EXCEPT ![req[w].hash] =
                         [present |-> TRUE,
                          category |-> IF req[w].category # NotGiven
                                       THEN req[w].category ELSE @.category,
                          comment |-> IF req[w].comment # NotGiven
                                      THEN req[w].comment ELSE @.comment]]
    /\ rootResp' = NoRoot
    /\ UNCHANGED <<amountIn, amountOut, rowA, rowB, hashA, hashB, ledger, aliases,
                   summaryResp, local>>

----------------------------------------------------------------------------
(* Specifications *)

NextParse == ParseAmount
SpecParse == InitParse /\ [][NextParse]_vars

NextHash == HashTransactions
SpecHash == InitHash /\ [][NextHash]_vars

NextLedger == GetSummary \/ Root
SpecLedger == InitLedger /\ [][NextLedger]_vars

\* one worker process: a request is served to its end before the next
NextStore ==
    \/ \E h \in ReqHashes \cup {Empty}, c \in Categories : set_category(1, h, c, MaxOps)
    \/ \E h \in ReqHashes \cup {Empty}, c \in Comments : set_comment(1, h, c, MaxOps)
    \/ save_write(1)
    \/ Root
SpecStore == InitStore /\ [][NextStore]_vars

\* several worker processes over the one file
NextRace ==
    \/ \E w \in Workers, h \in ReqHashes \cup {Empty}, c \in Categories :
           set_category(w, h, c, MaxRaceOps)
    \/ \E w \in Workers, h \in ReqHashes \cup {Empty}, c \in RaceComments :
           set_comment(w, h, c, MaxRaceOps)
    \/ \E w \in Workers : save_write(w)
SpecRace == InitStore /\ [][NextRace]_vars

----------------------------------------------------------------------------
(* Claims *)

Stored(f, h) == dict_get(load_annotations(f), h, no_annotation(h))

same_store(a, b) ==
    /\ Len(a) = Len(b)
    /\ \A h \in ReqHashes :
           /\ has_key(a, h) <=> has_key(b, h)
           /\ dict_get(a, h, no_annotation(h)) = dict_get(b, h, no_annotation(h))

\* C1: with one writer and no failed write, once a request has ended load()
\* returns exactly the hashes upserted, each with the last category and the
\* last comment given for it ('' if none was).
C1_LoadReturnsUpserts ==
    (pc[1] = "idle" /\ ~log.failed) =>
        /\ Len(load_annotations(file)) = Cardinality({h \in ReqHashes : given[h].present})
        /\ \A h \in ReqHashes :
               /\ given[h].present <=> has_key(load_annotations(file), h)
               /\ given[h].present =>
                      /\ Stored(file, h).category = given[h].category
                      /\ Stored(file, h).comment = given[h].comment

\* C2: a worker that read the store before another worker's rewrite and then
\* rewrites it itself, for a different hash, leaves the other worker's hash
\* with what the store held when it read: the update made in between is gone.
C2_StaleRewriteDiscards ==
    (log.status = "ok" /\ log.stale /\ log.other # log.hash) =>
        /\ has_key(load_annotations(file), log.other) <=> has_key(log.before, log.other)
        /\ Stored(file, log.other) = dict_get(log.before, log.other, no_annotation(log.other))

\* a lost update: both upserts ended without an error, and the store holds
\* no entry for the hash the first of them wrote
C2_LostUpdate ==
    /\ log.status = "ok" /\ log.stale /\ log.otherOk /\ log.other # log.hash
    /\ ~has_key(load_annotations(file), log.other)
    /\ has_key(load_annotations(file), log.hash)

\* C3: an upsert that raises leaves the store with exactly the annotations
\* it held when the upsert began.
C3_FailedUpsertKeepsStore ==
    log.status = "raised" => same_store(load_annotations(file), log.before)

has_column(c) ==
    \/ c \in Range(ledger.header)
    \/ c = "date" /\ "Buchungstag" \in Range(ledger.header)
                  /\ <<"Buchungstag", "date">> \in aliases

raw_column(c) ==
    IF c = "date" /\ "date" \notin Range(ledger.header) THEN "Buchungstag" ELSE c

\* absent from the header, or present and empty in every one of the rows
lacks(c) ==
    \/ ~has_column(c)
    \/ /\ ledger.rows # <<>>
       /\ \A i \in 1..Len(ledger.rows) : ledger.rows[i][raw_column(c)] = NaN

\* C4: a ledger that lacks `date` or `amount` is refused with the validation
\* error, which names every column it lacks, and nothing is summarised.
C4_MissingRequiredFails ==
    (summaryResp.tag # "none" /\ (lacks("date") \/ lacks("amount"))) =>
        /\ summaryResp.tag = "500"
        /\ summaryResp.err = "MissingColumns"
        /\ \A c \in Range(required_columns) : lacks(c) => c \in Range(summaryResp.missing)
        /\ summaryResp.monthly_data = <<>>

\* C5: a ledger with the required columns and no rows is summarised without
\* an error: total_transactions = 0 and monthly_data is empty.
C5_EmptyLedgerSummarises ==
    (summaryResp.tag # "none" /\ ledger.rows = <<>>
        /\ has_column("date") /\ has_column("amount")) =>
        /\ summaryResp.tag = "ok"
        /\ summaryResp.total_transactions = 0
        /\ summaryResp.monthly_data = <<>>

\* a German-formatted number: an optional '-', digits with '.' between them,
\* then an optional ',' and digits
german_number(s) ==
    LET u == IF startswith(s, "-") THEN Tail(s) ELSE s
        comma == index_of(u, ",")
        whole == IF comma = 0 THEN u ELSE SubSeq(u, 1, comma - 1)
        frac == IF comma = 0 THEN <<>> ELSE SubSeq(u, comma + 1, Len(u))
    IN  /\ whole # <<>>
        /\ whole[1] \in Digits /\ whole[Len(whole)] \in Digits
        /\ \A i \in 1..Len(whole) : whole[i] \in Digits \cup {"."}
        /\ \A i \in 1..Len(frac) : frac[i] \in Digits

german_value(s) ==
    LET u == IF startswith(s, "-") THEN Tail(s) ELSE s
        comma == index_of(u, ",")
        places == IF comma = 0 THEN 0 ELSE Len(u) - comma
        v == FRound(DigitsVal(SelectSeq(u, LAMBDA c : c \in Digits)), Pow10(places), 0)
    IN  IF startswith(s, "-") THEN FNeg(v) ELSE v

\* C6, as claimed: amount parsing never raises, and an empty, missing or
\* unparseable amount gives 0.0.
C6_NeverRaises ==
    amountOut.tag # "none" =>
        /\ amountOut.tag = "ok"
        /\ (amountIn \in {NaN, Empty} \/ ~german_number(strip(amountIn))) =>
               amountOut.val = FZero

\* C6, amended: an empty or missing amount gives 0.0 and a German-formatted
\* number gives its value; any other string is read a second time with every
\* ',' and '.' dropped, and when that is no number either the parse raises
\* ValueError: a string with a letter in it, or with no digit, always raises.
C6_ParsesOrRaises ==
    amountOut.tag # "none" =>
        /\ amountIn \in {NaN, Empty} => amountOut = Ok(FZero)
        /\ (amountIn \notin {NaN, Empty} /\ german_number(strip(amountIn))) =>
               amountOut = Ok(german_value(strip(amountIn)))
        /\ (amountIn \notin {NaN, Empty} /\ ~float_accepts(primary_clean(amountIn))) =>
               IF float_accepts(remove(remove(amountIn, ","), "."))
               THEN amountOut = Ok(float_of(remove(remove(amountIn, ","), ".")))
               ELSE amountOut.tag = "ValueError"
        /\ (amountIn # NaN /\ \E i \in 1..Len(amountIn) : amountIn[i] = "x") =>
               amountOut.tag = "ValueError"
        /\ (amountIn \notin {NaN, Empty} /\ \A i \in 1..Len(amountIn) : amountIn[i] \notin Digits) =>
               amountOut.tag = "ValueError"

\* an unparseable amount has made the parse raise
C6_RaisedOnJunk ==
    /\ amountOut.tag = "ValueError"
    /\ amountIn # NaN /\ \E i \in 1..Len(amountIn) : amountIn[i] = "x"

\* C7: in every monthly bucket net = income + expenses, and over all buckets
\* the income total plus the expenses total is the net total.
C7_NetIsIncomePlusExpenses ==
    summaryResp.tag = "ok" =>
        /\ \A i \in 1..Len(summaryResp.monthly_data) :
               summaryResp.monthly_data[i].net =
                   FAdd(summaryResp.monthly_data[i].income,
                        summaryResp.monthly_data[i].expenses)
        /\ summaryResp.totals[3] = FAdd(summaryResp.totals[1], summaryResp.totals[2])

listed(side) ==
    UNION {{<<rootResp.details[i].month, rootResp.details[i][side][k]>> :
               k \in 1..Len(rootResp.details[i][side])} :
           i \in 1..Len(rootResp.details)}

\* C8: the detail view lists each month's rows with amount > 0 as income and
\* those with amount < 0 as expenses, and every listed row carries the
\* category and the comment last given for its hash, '' if none was.
C8_DetailShowsAnnotations ==
    (rootResp.tag = "ok" /\ ~log.failed) =>
        LET df == load_transactions(ledger, aliases)
            hash_of(i) == create_transaction_hash(detail_columns(df.columns), df.rows[i])
            rows_of(month, sgn) ==
                {i \in 1..Len(df.rows) :
                    /\ df.rows[i].date # NaT
                    /\ str_period(df.rows[i].date) = month
                    /\ IF sgn > 0 THEN df.rows[i].amount.m > 0 ELSE df.rows[i].amount.m < 0}
            placed(side, sgn) ==
                /\ \A i \in 1..Len(rootResp.details) :
                       /\ Len(rootResp.details[i][side]) =
                              Cardinality(rows_of(rootResp.details[i].month, sgn))
                       /\ \A k \in 1..Len(rootResp.details[i][side]) :
                              \E r \in rows_of(rootResp.details[i].month, sgn) :
                                  hash_of(r) = rootResp.details[i][side][k].hash
                /\ \A r \in 1..Len(df.rows) :
                       r \in rows_of(str_period(df.rows[r].date), sgn) =>
                           \E e \in listed(side) :
                               e[1] = str_period(df.rows[r].date) /\ e[2].hash = hash_of(r)
            annotated(side) ==
                \A e \in listed(side) :
                    IF e[2].hash \in ReqHashes /\ given[e[2].hash].present
                    THEN /\ e[2].category = given[e[2].hash].category
                         /\ e[2].comment = given[e[2].hash].comment
                    ELSE e[2].category = Empty /\ e[2].comment = Empty
        IN  /\ placed("income", 1) /\ placed("expenses", -1)
            /\ annotated("income") /\ annotated("expenses")

\* C9: on a ledger that loads and has a row with a date, a row whose date
\* cannot be parsed makes neither request fail, and both leave the row out:
\* it is in no bucket of the summary and in no list of the detail view.
C9_BadDateNeverFails ==
    LET df == load_transactions(ledger, aliases)
    IN  (/\ df.tag = "ok"
         /\ \E i \in 1..Len(ledger.rows) : ledger.rows[i][raw_column("date")] = DBad
         /\ \E i \in 1..Len(df.rows) : df.rows[i].date # NaT) =>
            /\ summaryResp.tag # "none" =>
                   /\ summaryResp.tag = "ok"
                   /\ \A i \in 1..Len(summaryResp.monthly_data) :
                          summaryResp.monthly_data[i].month # period(NaT)
            /\ rootResp.tag # "none" =>
                   /\ rootResp.tag = "ok"
                   /\ \A e \in listed("income") \cup listed("expenses") :
                          e[1] # <<"NaT">>

\* C10: two rows of the same columns have the same hash only if they agree
\* in every column.
C10_DistinctRowsDistinctHash ==
    hashA # <<>> => (hashA = hashB => rowA = rowB)

====
